---- MODULE Spec2Model ----
(***************************************************************************)
(* mypy_clean_slate: the report-to-edit pipeline of main.py.               *)
(*                                                                         *)
(* Text is modelled as a sequence of lexemes (TLA+ strings).  A lexeme is  *)
(* one character (" ", "#", "[", "]", ",", ":", "(", the double quote "Q", *)
(* the backslash-escaped quote "EQ", the line break "\n") or a run of characters that no regular expression  *)
(* or string method of the program looks inside ("x": code, "w": comment   *)
(* words, "m": a message, "a","b": error codes, "f1","f2": paths, "1","2": *)
(* decimal numerals) or looks at only as a whole ("TI": the text           *)
(* `type: ignore`, "error", "note", "Found", "Success", "Unused",          *)
(* "unused-ignore").  Files on disk and the report are flat texts; the     *)
(* program's split/join/strip/regex calls are operators over such texts.   *)
(***************************************************************************)
EXTENDS Integers, Sequences, FiniteSets, TLC

(***************************************************************************)
(* Bounds of the model.                                                    *)
(***************************************************************************)
\* the report holds at most MaxReport lines (before its final line break)
MaxReport == 2
\* main() is invoked at most MaxRuns times on the same report
MaxRuns == 2

(***************************************************************************)
(* The installation the command runs in: the locale encoding, os.linesep   *)
(* and the version of the tokenize module.  It is the same throughout a    *)
(* run.                                                                    *)
(***************************************************************************)
VARIABLE env

(***************************************************************************)
(* String primitives (str methods used by main.py).                        *)
(***************************************************************************)
\* characters str.strip()/str.rstrip() without argument remove
Whitespace == {" ", "\t", "\n"}

\* `"#" in line`
Contains(s, t) == \E i \in 1..Len(s) : s[i] = t

\* s[i:] and s[:i] with 1-based positions: Drop(s, n) drops the first n lexemes
Drop(s, n) == SubSeq(s, n + 1, Len(s))
Take(s, n) == SubSeq(s, 1, n)

RECURSIVE RStripOf(_, _)
\* str.rstrip(chars)
RStripOf(s, chars) ==
    IF s # <<>> /\ s[Len(s)] \in chars THEN RStripOf(Take(s, Len(s) - 1), chars) ELSE s

RECURSIVE LStripOf(_, _)
LStripOf(s, chars) ==
    IF s # <<>> /\ s[1] \in chars THEN LStripOf(Tail(s), chars) ELSE s

\* str.rstrip(), str.rstrip(" "), str.strip()
RStrip(s) == RStripOf(s, Whitespace)
RStripSpaces(s) == RStripOf(s, {" "})
Strip(s) == LStripOf(RStripOf(s, Whitespace), Whitespace)

RECURSIVE SplitAcc(_, _, _, _)
\* str.split(sep) for a one-lexeme separator, at most `max` splits (-1: no limit)
SplitAcc(s, sep, max, cur) ==
    IF s = <<>> THEN <<cur>>
    ELSE IF s[1] = sep /\ max # 0
         THEN <<cur>> \o SplitAcc(Tail(s), sep, IF max > 0 THEN max - 1 ELSE max, <<>>)
         ELSE SplitAcc(Tail(s), sep, max, Append(cur, s[1]))

Split(s, sep) == SplitAcc(s, sep, -1, <<>>)
SplitMax(s, sep, max) == SplitAcc(s, sep, max, <<>>)

RECURSIVE Join(_, _)
\* sep.join(parts)
Join(parts, sep) ==
    IF parts = <<>> THEN <<>>
    ELSE IF Len(parts) = 1 THEN parts[1]
    ELSE parts[1] \o sep \o Join(Tail(parts), sep)

(***************************************************************************)
(* Ordering of strings (Python compares str by code point, tuples and      *)
(* lists lexicographically).  TokRank orders the lexemes as their first    *)
(* differing characters are ordered in ASCII.                              *)
(***************************************************************************)
TokOrder ==
    << "\n", "\t", " ", "Q", "#", "(", ",", "1", "2", "3", "4", ":", "Found", "Success",
       "Unused", "[", "EQ", "]", "a", "b", "c", "error", "f1", "f2", "m", "note", "TI",
       "unused-ignore", "unused_ignore.py", "w", "x" >>

TokRank(t) == CHOOSE i \in 1..Len(TokOrder) : TokOrder[i] = t

RECURSIVE StrLess(_, _)
\* s < t for str
StrLess(s, t) ==
    IF t = <<>> THEN FALSE
    ELSE IF s = <<>> THEN TRUE
    ELSE IF s[1] = t[1] THEN StrLess(Tail(s), Tail(t))
    ELSE TokRank(s[1]) < TokRank(t[1])

RECURSIVE SortedStrs(_)
\* sorted(set of str)
SortedStrs(S) ==
    IF S = {} THEN <<>>
    ELSE LET m == CHOOSE x \in S : \A y \in S \ {x} : StrLess(x, y)
         IN  <<m>> \o SortedStrs(S \ {m})

(***************************************************************************)
(* The two regular expressions of main.py, matched over lexemes.           *)
(*   MYPY_IGNORE_REGEX: `type:`, whitespace, `ignore`, then optionally a   *)
(*     bracketed group error_codes holding no `]`;                         *)
(*   MYPY_IGNORE_WITH_COMMENT_REGEX: `#`, whitespace, then the same.       *)
(* A match is [start, end, group]: the positions of its first and last     *)
(* lexeme and the text of error_codes ("" when the group took no part).    *)
(***************************************************************************)
NoMatch == [start |-> 0, end |-> 0, group |-> <<>>]

RECURSIVE SkipWs(_, _)
\* \s* from position i: the first position that holds no whitespace
SkipWs(s, i) == IF i <= Len(s) /\ s[i] \in Whitespace THEN SkipWs(s, i + 1) ELSE i

\* MYPY_IGNORE_REGEX anchored at position j
MYPY_IGNORE_REGEX_at(s, j) ==
    IF j > Len(s) \/ s[j] # "TI" THEN NoMatch
    ELSE IF j + 1 <= Len(s) /\ s[j + 1] = "[" /\ \E k \in (j + 2)..Len(s) : s[k] = "]"
         THEN LET k == CHOOSE k \in (j + 2)..Len(s) :
                          s[k] = "]" /\ \A l \in (j + 2)..(k - 1) : s[l] # "]"
              IN  [start |-> j, end |-> k, group |-> SubSeq(s, j + 2, k - 1)]
         ELSE [start |-> j, end |-> j, group |-> <<>>]

\* MYPY_IGNORE_WITH_COMMENT_REGEX anchored at position i
MYPY_IGNORE_WITH_COMMENT_REGEX_at(s, i) ==
    IF i > Len(s) \/ s[i] # "#" THEN NoMatch
    ELSE LET m == MYPY_IGNORE_REGEX_at(s, SkipWs(s, i + 1))
         IN  IF m = NoMatch THEN NoMatch ELSE [m EXCEPT !.start = i]

RECURSIVE FindIter(_, _)
\* MYPY_IGNORE_WITH_COMMENT_REGEX.finditer(s), scanning from position i
FindIter(s, i) ==
    IF i > Len(s) THEN <<>>
    ELSE LET m == MYPY_IGNORE_WITH_COMMENT_REGEX_at(s, i)
         IN  IF m = NoMatch THEN FindIter(s, i + 1)
             ELSE <<m>> \o FindIter(s, m.end + 1)

RECURSIVE SubFrom(_, _, _)
\* MYPY_IGNORE_WITH_COMMENT_REGEX.sub(repl, s), scanning from position i
SubFrom(repl, s, i) ==
    IF i > Len(s) THEN <<>>
    ELSE LET m == MYPY_IGNORE_WITH_COMMENT_REGEX_at(s, i)
         IN  IF m = NoMatch THEN <<s[i]>> \o SubFrom(repl, s, i + 1)
             ELSE repl \o SubFrom(repl, s, m.end + 1)

MYPY_IGNORE_WITH_COMMENT_REGEX_sub(repl, s) == SubFrom(repl, s, 1)

\* MYPY_IGNORE_REGEX.search(s): the leftmost match, NoMatch for None
MYPY_IGNORE_REGEX_search(s) ==
    IF \E j \in 1..Len(s) : s[j] = "TI"
    THEN MYPY_IGNORE_REGEX_at(s, CHOOSE j \in 1..Len(s) :
                                    s[j] = "TI" /\ \A l \in 1..(j - 1) : s[l] # "TI")
    ELSE NoMatch

\* _parse_codes: the pieces between commas, each stripped
parse_codes(error_codes) ==
    LET parts == Split(error_codes, ",")
    IN  {Strip(parts[i]) : i \in 1..Len(parts)}

RECURSIVE CodesOfMatches(_)
CodesOfMatches(ms) ==
    IF ms = <<>> THEN {}
    ELSE (IF ms[1].group # <<>> THEN parse_codes(ms[1].group) ELSE {})
         \cup CodesOfMatches(Tail(ms))

\* _get_codes_from_line: the codes of every annotation found in the text
get_codes_from_line(line) == CodesOfMatches(FindIter(line, 1))

\* f"# type: ignore[{', '.join(codes)}]" for a sorted list of codes
IgnoreComment(codes) == <<"#", " ", "TI", "[">> \o Join(codes, <<",", " ">>) \o <<"]">>

(***************************************************************************)
(* Line Splitter: extract_code_comment.                                    *)
(***************************************************************************)
RECURSIVE ScanTokens(_, _, _)
\* tokenize.generate_tokens over the one line, from position i with `depth`
\* brackets open: where the COMMENT token starts (0: there is none) and whether
\* the scan ends in TokenError (end of input inside an open bracket).  A string
\* literal runs from a quote to the next unescaped quote and hides what is in it;
\* a quote that is never closed is passed over as an error token by the
\* tokenize of Python 3.11 and ends the scan in TokenError in that of 3.12; a
\* triple quote ("TQ") that is never closed ends it in TokenError in both (end
\* of input inside a multi-line string).  A line holds at most one COMMENT
\* token, as a comment runs to the end of the line.
ScanTokens(s, i, depth) ==
    IF i > Len(s) THEN [comment |-> 0, error |-> depth > 0]
    ELSE IF s[i] = "#" THEN [comment |-> i, error |-> depth > 0]
    ELSE IF s[i] = "TQ"
         THEN IF \E k \in (i + 1)..Len(s) : s[k] = "TQ"
              THEN LET k == CHOOSE k \in (i + 1)..Len(s) :
                               s[k] = "TQ" /\ \A l \in (i + 1)..(k - 1) : s[l] # "TQ"
                   IN  ScanTokens(s, k + 1, depth)
              ELSE [comment |-> 0, error |-> TRUE]
    ELSE IF s[i] = "Q" /\ \E k \in (i + 1)..Len(s) : s[k] = "Q"
         THEN LET k == CHOOSE k \in (i + 1)..Len(s) :
                          s[k] = "Q" /\ \A l \in (i + 1)..(k - 1) : s[l] # "Q"
              IN  ScanTokens(s, k + 1, depth)
    ELSE IF s[i] = "Q" /\ env.tokenize = "3.12" THEN [comment |-> 0, error |-> TRUE]
    ELSE IF s[i] = "(" THEN ScanTokens(s, i + 1, depth + 1)
    ELSE ScanTokens(s, i + 1, depth)

\* extract_code_comment as it would be if, on TokenError, it split the line at
\* its first `#` instead of returning it whole
extract_code_comment_split_on_error(line) ==
    IF ~Contains(line, "#")
    THEN [code |-> line, comment |-> <<>>, warned |-> FALSE]
    ELSE LET t == ScanTokens(line, 1, 0)
             h == CHOOSE i \in 1..Len(line) :
                      line[i] = "#" /\ \A j \in 1..(i - 1) : line[j] # "#"
         IN  IF t.error
             THEN [code |-> Take(line, h - 1), comment |-> Drop(line, h - 1), warned |-> TRUE]
             ELSE IF t.comment = 0
             THEN [code |-> line, comment |-> <<>>, warned |-> FALSE]
             ELSE [code |-> Take(line, t.comment - 1),
                   comment |-> Drop(line, t.comment - 1),
                   warned |-> FALSE]

\* extract_code_comment(line=line): the pair (python_code, python_comment), and
\* whether the TokenError warning was emitted
extract_code_comment(line) ==
    IF ~Contains(line, "#")
    THEN [code |-> line, comment |-> <<>>, warned |-> FALSE]
    ELSE LET t == ScanTokens(line, 1, 0)
         IN  IF t.error
             THEN [code |-> line, comment |-> <<>>, warned |-> TRUE]
             ELSE IF t.comment = 0
             THEN [code |-> line, comment |-> <<>>, warned |-> FALSE]
             ELSE [code |-> Take(line, t.comment - 1),
                   comment |-> Drop(line, t.comment - 1),
                   warned |-> FALSE]

(***************************************************************************)
(* The line edits of the two passes.                                       *)
(***************************************************************************)
\* update_files, the body of its loop for one line: the new text of the line
\* given the codes the report names for it
LineUpdate(line, new_codes) ==
    LET cc == extract_code_comment(line)
        error_codes == IF cc.comment # <<>>
                       THEN new_codes \cup get_codes_from_line(cc.comment)
                       ELSE new_codes
        python_comment == IF cc.comment # <<>>
                          THEN MYPY_IGNORE_WITH_COMMENT_REGEX_sub(<<>>, cc.comment)
                          ELSE cc.comment
        python_code == RStrip(cc.code)
        mypy_ignore == IgnoreComment(SortedStrs(error_codes))
        line_update == IF python_comment # <<>>
                       THEN python_code \o <<" ", " ">> \o mypy_ignore \o <<" ">>
                                \o python_comment
                       ELSE python_code \o <<" ", " ">> \o mypy_ignore
    IN  RStripSpaces(line_update)

\* remove_unused_ignores: the unused codes a report message names
UnusedIgnores(error_code) ==
    LET mo == MYPY_IGNORE_REGEX_search(error_code)
    IN  IF mo # NoMatch /\ mo.group # <<>> THEN parse_codes(mo.group) ELSE {}

\* remove_unused_ignores, the body of its inner loop: the new text of the line
\* given the message of one unused-ignore record
LinePrune(orig_line, error_code) ==
    LET unused_ignores == UnusedIgnores(error_code)
        ignores_found == get_codes_from_line(orig_line)
        ignores_to_keep == SortedStrs(ignores_found \ unused_ignores)
    IN  IF unused_ignores # {} /\ ignores_found # {} /\ ignores_to_keep # <<>>
        THEN RStrip(MYPY_IGNORE_WITH_COMMENT_REGEX_sub(IgnoreComment(ignores_to_keep),
                                                       orig_line))
        ELSE RStrip(MYPY_IGNORE_WITH_COMMENT_REGEX_sub(<<>>, orig_line))

(***************************************************************************)
(* Report Parser.                                                          *)
(***************************************************************************)
\* lexemes whose text holds the word `error`, and those whose text matches
\* `unused.ignore`
ErrorLexemes == {"error"}
\* the lexemes `unused.ignore` matches in: the error code and a file name
UnusedIgnoreLexemes == {"unused-ignore", "unused_ignore.py"}
\* decimal numerals: Numerals[n] is the numeral of n
Numerals == <<"1", "2", "3", "4">>

\* int(text): the value, or -1 where int raises ValueError
IntOf(text) ==
    LET t == Strip(text)
    IN  IF Len(t) = 1 /\ \E n \in 1..Len(Numerals) : Numerals[n] = t[1]
        THEN CHOOSE n \in 1..Len(Numerals) : Numerals[n] = t[1]
        ELSE -1

\* line_contains_error: re.match of `.*error.*\[.*\]$`
line_contains_error(error_message) ==
    /\ error_message # <<>>
    /\ error_message[Len(error_message)] = "]"
    /\ \E i, j \in 1..(Len(error_message) - 1) :
          i < j /\ error_message[i] \in ErrorLexemes /\ error_message[j] = "["

\* line_is_unused_ignore: re.match of `.*unused.ignore.*|Unused "type: ignore`
line_is_unused_ignore(error_message) ==
    \/ \E i \in 1..Len(error_message) : error_message[i] \in UnusedIgnoreLexemes
    \/ /\ Len(error_message) >= 4
       /\ SubSeq(error_message, 1, 4) = <<"Unused", " ", "Q", "TI">>

\* summary_regex.match(line) is not None: the lexeme "Found" stands for a text
\* `Found <N> error(s) in <M>`
summary_regex_match(line) == line # <<>> /\ line[1] = "Found"

\* x < y for the tuples (file_path, line_number, text); with full = FALSE only
\* the key (x[0], x[1]) is compared
TupleLess(x, y, full) ==
    \/ StrLess(x[1], y[1])
    \/ x[1] = y[1] /\ x[2] < y[2]
    \/ full /\ x[1] = y[1] /\ x[2] = y[2] /\ StrLess(x[3], y[3])

RECURSIVE InsertTuple(_, _, _)
\* x put into the sorted list after every element that is not greater (stable)
InsertTuple(sorted, x, full) ==
    IF sorted = <<>> THEN <<x>>
    ELSE IF TupleLess(x, sorted[1], full) THEN <<x>> \o sorted
    ELSE <<sorted[1]>> \o InsertTuple(Tail(sorted), x, full)

RECURSIVE SortTuples(_, _)
\* sorted(list) of tuples, stable
SortTuples(list, full) ==
    IF list = <<>> THEN <<>>
    ELSE InsertTuple(SortTuples(Take(list, Len(list) - 1), full), list[Len(list)], full)

RECURSIVE InsertStr(_, _)
InsertStr(sorted, x) ==
    IF sorted = <<>> THEN <<x>>
    ELSE IF StrLess(x, sorted[1]) THEN <<x>> \o sorted
    ELSE <<sorted[1]>> \o InsertStr(Tail(sorted), x)

RECURSIVE SortStrList(_)
\* sorted(list of str)
SortStrList(list) ==
    IF list = <<>> THEN <<>>
    ELSE InsertStr(SortStrList(Take(list, Len(list) - 1)), list[Len(list)])

RECURSIVE SetToSeq(_)
SetToSeq(S) ==
    IF S = {} THEN <<>> ELSE LET x == CHOOSE y \in S : TRUE IN <<x>> \o SetToSeq(S \ {x})

\* read_mypy_error_report: the lines of the report without the summary line and
\* the blank lines, sorted
read_mypy_error_report(text) ==
    LET error_report_lines == Split(text, "\n")
        NotSummary(line) == ~summary_regex_match(line)
        NotBlank(line) == Strip(line) # <<>>
        error_report_lines_no_summary == SelectSeq(error_report_lines, NotSummary)
        error_report_lines_filtered == SelectSeq(error_report_lines_no_summary, NotBlank)
    IN  SortStrList(error_report_lines_filtered)

\* exit_if_no_errors as it would be if it compared each line with the marker
\* instead of testing that the line starts with it
exit_if_no_errors_whole_line(report_lines) ==
    \E i \in 1..Len(report_lines) : report_lines[i] = <<"Success">>

\* exit_if_no_errors: TRUE when it raises SystemExit
exit_if_no_errors(report_lines) ==
    \E i \in 1..Len(report_lines) :
        report_lines[i] # <<>> /\ report_lines[i][1] = "Success"

\* group(1) of the re.match of line 226 on error_line: the text between the last
\* `[` and the closing `]` that ends the line; <<"no match">> when re.match gives None
TrailingBracket(error_line) ==
    LET n == Len(error_line)
    IN  IF n > 0 /\ error_line[n] = "]" /\ \E j \in 1..(n - 1) : error_line[j] = "["
        THEN LET j == CHOOSE j \in 1..(n - 1) :
                         error_line[j] = "[" /\ \A l \in (j + 1)..(n - 1) : error_line[l] # "["
             IN  [matched |-> TRUE, group |-> SubSeq(error_line, j + 1, n - 1)]
        ELSE [matched |-> FALSE, group |-> <<>>]

RECURSIVE ExtractFrom(_, _, _)
\* the loop of extract_file_line_number_and_error_code over error_report_lines
\* from the i-th on, file_updates holding the tuples (file_path, line_num, code)
\* appended so far: the exception the loop ends in ("none": it completes) and the
\* set of the tuples appended
ExtractFrom(lines, i, file_updates) ==
    IF i > Len(lines) THEN [error |-> "none", updates |-> file_updates]
    ELSE IF ~line_contains_error(lines[i]) \/ line_is_unused_ignore(lines[i])
    THEN ExtractFrom(lines, i + 1, file_updates)
    ELSE LET fields == Split(lines[i], ":")
             tb == TrailingBracket(lines[i])
         IN  IF Len(fields) < 2 \/ IntOf(fields[2]) = -1
             THEN [error |-> "ValueError", updates |-> file_updates]
             ELSE IF ~tb.matched
             THEN [error |-> "RuntimeError", updates |-> file_updates]
             ELSE ExtractFrom(lines, i + 1,
                              file_updates \cup {<<fields[1], IntOf(fields[2]) - 1, tb.group>>})

\* extract_file_line_number_and_error_code as it would be if it raised on every
\* line that is neither a diagnostic with a code nor an unused-ignore line
extract_rejecting_unrecognized(error_report_lines) ==
    LET r == ExtractFrom(error_report_lines, 1, {})
    IN  IF \E i \in 1..Len(error_report_lines) :
               /\ ~line_contains_error(error_report_lines[i])
               /\ ~line_is_unused_ignore(error_report_lines[i])
        THEN [error |-> "RuntimeError", updates |-> <<>>]
        ELSE [error |-> r.error, updates |-> SortTuples(SetToSeq(r.updates), TRUE)]

\* extract_file_line_number_and_error_code: the sorted, duplicate-free updates
extract_file_line_number_and_error_code(error_report_lines) ==
    LET r == ExtractFrom(error_report_lines, 1, {})
    IN  [error |-> r.error, updates |-> SortTuples(SetToSeq(r.updates), TRUE)]

RECURSIVE UnusedFrom(_, _, _)
\* remove_unused_ignores: the list comprehension over report_lines from the i-th
\* on, `list` holding the tuples (file_path, line_number, message) built so far
UnusedFrom(report_lines, i, list) ==
    IF i > Len(report_lines) THEN [error |-> "none", list |-> list]
    ELSE IF ~line_is_unused_ignore(report_lines[i])
    THEN UnusedFrom(report_lines, i + 1, list)
    ELSE LET fields == SplitMax(report_lines[i], ":", 2)
         IN  IF Len(fields) < 3 THEN [error |-> "IndexError", list |-> list]
             ELSE IF IntOf(fields[2]) = -1 THEN [error |-> "ValueError", list |-> list]
             ELSE UnusedFrom(report_lines, i + 1,
                             Append(list, <<fields[1], IntOf(fields[2]), fields[3]>>))

\* the position (1-based) of list[i] for a Python index i, 0 for IndexError
PyIndex(n, i) ==
    IF 0 <= i /\ i < n THEN i + 1
    ELSE IF -n <= i /\ i < 0 THEN n + i + 1
    ELSE 0

\* itertools.groupby left out: every element is a group of its own
PrefixLenUngrouped(list, key, width) == 1

RECURSIVE PrefixLen(_, _, _)
\* itertools.groupby: how many leading elements of the list share the key of
\* the first (width: the number of tuple fields the key takes)
PrefixLen(list, key, width) ==
    IF list # <<>> /\ SubSeq(list[1], 1, width) = key
    THEN 1 + PrefixLen(Tail(list), key, width)
    ELSE 0

(***************************************************************************)
(* Inputs: the source files, the report and the command line.              *)
(***************************************************************************)
Paths == {"f1", "f2"}

(***************************************************************************)
(* Text files.  A file on disk is the sequence of its characters as UTF-8  *)
(* encodes them: a lexeme stands for the bytes of one character.  Reading  *)
(* decodes the bytes and translates line breaks; writing translates line   *)
(* breaks and encodes.                                                     *)
(***************************************************************************)
\* the platforms the command runs on: the locale encoding, which
\* read_text() without `encoding` decodes with, and os.linesep, which a file
\* opened for writing in text mode puts in place of each "\n"
Posix == [encoding |-> "utf8", linesep |-> <<"\n">>, tokenize |-> "3.11"]
Windows == [encoding |-> "cp1252", linesep |-> <<"\r", "\n">>, tokenize |-> "3.11"]
\* the same with the tokenize of Python 3.12
Posix312 == [Posix EXCEPT !.tokenize = "3.12"]

\* the characters cp1252 decodes the UTF-8 bytes of one character to: the two
\* bytes of e-acute are A-tilde and the copyright sign, ASCII is itself.  (A
\* file is decoded as cp1252 at most once in an invocation; the image of an
\* already misdecoded character is one more name.)
Cp1252(b) ==
    IF b = "e_acute" THEN "A_tilde_copyright"
    ELSE IF b = "A_tilde_copyright" THEN "A_tilde_florin_A_circumflex_copyright"
    ELSE b

\* bytes.decode(encoding)
decode(bytes, encoding) ==
    [i \in 1..Len(bytes) |-> IF encoding = "utf8" THEN bytes[i] ELSE Cp1252(bytes[i])]

RECURSIVE universal_newlines(_)
\* newline=None on input: "\r\n" and "\r" become "\n"
universal_newlines(s) ==
    IF s = <<>> THEN <<>>
    ELSE IF s[1] = "\r"
    THEN <<"\n">> \o universal_newlines(IF Len(s) >= 2 /\ s[2] = "\n" THEN Drop(s, 2)
                                        ELSE Tail(s))
    ELSE <<s[1]>> \o universal_newlines(Tail(s))

\* pathlib.Path.read_text(encoding=encoding)
read_text(bytes, encoding) == universal_newlines(decode(bytes, encoding))

RECURSIVE write_text(_, _)
\* open(file_path, "w", encoding="utf8").write(text): each "\n" becomes os.linesep
write_text(text, linesep) ==
    IF text = <<>> THEN <<>>
    ELSE (IF text[1] = "\n" THEN linesep ELSE <<text[1]>>) \o write_text(Tail(text), linesep)

\* `x  # type: ignore[a]` and the like
Ann(codes) == <<" ", " ", "#", " ", "TI", "[">> \o codes \o <<"]">>
Residual == <<"#", " ", "w">>

\* the texts the first line of f1 is drawn from
TargetLines ==
    { <<"x">>,
      <<"x", "(">>,
      <<"x", " ">> \o Residual,
      <<"x", " ", " ", "#", " ", "TI">>,
      <<"x">> \o Ann(<<"a">>),
      <<"x">> \o Ann(<<"b", ",", " ", "a">>),
      <<"x">> \o Ann(<<"a">>) \o <<" ">> \o Residual,
      <<"x", " ", " ">> \o Residual \o <<" ", "#", " ", "TI", "[", "a", "]">>,
      <<"x", "(">> \o Ann(<<"a">>),
      <<"x", "Q", "#", "EQ", "Q">>,
      <<"x", "Q", "#", "Q", " ">> \o Residual,
      <<"x", "Q", "#", " ", "TI", "[", "b", "]", "Q">> \o Ann(<<"a">>) }

\* lines the tokenizer cannot scan to their end, or scans with an error token:
\* an open bracket, a triple quote never closed, a quote never closed; and one
\* it scans
TargetLinesTok ==
    { <<"x", "(">> \o Ann(<<"a">>),
      <<"x", "(", " ">> \o Residual,
      <<"x", "TQ", "m", " ">> \o Residual,
      <<"x", "Q", "m", " ">> \o Residual,
      <<"x", "Q", "m">> \o Ann(<<"a">>),
      <<"x", " ">> \o Residual }

\* f1 holds two lines and ends in a line break, f2 holds one line and no line break
SourceFiles(line) ==
    [p \in Paths |->
        IF p = "f1" THEN line \o <<"\n">> \o <<"x">> \o Ann(<<"a">>) \o <<"\n">>
        ELSE <<"x">>]

\* the same files with a third line in f1 that holds a character outside ASCII
\* (`x "<e-acute>"`), every line of f1 ended by the line break nl
SourceFilesEnv(line, nl) ==
    [p \in Paths |->
        IF p = "f1"
        THEN line \o nl \o <<"x">> \o Ann(<<"a">>) \o nl
                  \o <<"x", " ", "Q", "e_acute", "Q">> \o nl
        ELSE <<"x">>]

\* `<path>:<line>: error: <message> [<code>]`
DiagLine(path, n, code) ==
    <<path, ":", Numerals[n], ":", " ", "error", ":", " ", "m", " ", "[", code, "]">>

\* `<path>:<line>: error: Unused "type: ignore<codes>" comment [unused-ignore]`
UnusedLine(path, n, codes) ==
    <<path, ":", Numerals[n], ":", " ", "error", ":", " ", "Unused", " ", "Q", "TI">>
        \o codes \o <<"Q", " ", "m", " ", "[", "unused-ignore", "]">>

\* the lines a report is made of
ReportLines ==
    { DiagLine("f1", 1, "a"), DiagLine("f1", 1, "b"), DiagLine("f1", 2, "b"),
      DiagLine("f2", 1, "b"),
      UnusedLine("f1", 1, <<>>), UnusedLine("f1", 1, <<"[", "a", "]">>),
      UnusedLine("f1", 2, <<>>),
      <<"f1", ":", "1", ":", " ", "note", ":", " ", "m">>,
      <<"Success", " ", "m">>,
      <<"Found", " ", "m">> }

\* the text of a report: its lines, each ended by a line break
ReportText(lines) == Join(lines, <<"\n">>) \o <<"\n">>

\* the reports of up to MaxReport lines drawn from `lines`
ReportsOf(lines) ==
    UNION { {ReportText(ls) : ls \in [1..n -> lines]} : n \in 0..MaxReport }

Reports == ReportsOf(ReportLines)

\* a third source file, whose name holds the text `unused_ignore`, and the
\* reports that may hold a diagnostic for its one line
SourceFilesPath(line) ==
    [p \in Paths \cup {"unused_ignore.py"} |->
        IF p \in Paths THEN SourceFiles(line)[p] ELSE <<"x">> \o Ann(<<"b">>) \o <<"\n">>]

ReportsPath == ReportsOf(ReportLines \cup {DiagLine("unused_ignore.py", 1, "a")})

(***************************************************************************)
(* State.                                                                  *)
(***************************************************************************)
VARIABLES
    files,          \* path -> text of the source file on disk
    report,         \* text of the report file
    args,           \* the parsed command line: remove_unused, add_type_ignore
    point,          \* main: which of its two `if args.<pass>` comes next (3: none)
    pc,             \* "main": between passes; "prune", "add": inside the loop of
                    \* the pass; "done": main returned; "exit": SystemExit raised;
                    \* "crash": another exception raised
    error,          \* the exception that ended the run, "none" without one
    ignores_lines,  \* remove_unused_ignores: the records not yet processed
    file_updates,   \* update_files: the updates not yet processed
    run,            \* number of the invocation of main
    iolog,          \* history: the file reads and writes of this invocation
    orig,           \* history: the source files before the first invocation
    atRun,          \* history: the source files when this invocation began
    atPass,         \* history: the source files when the current pass began
    lastSplit       \* history: the last call of extract_code_comment and the line
                    \* update_files made of its result

vars == <<files, report, args, point, pc, error, ignores_lines, file_updates, run,
          env, iolog, orig, atRun, atPass, lastSplit>>

NoSplit == [called |-> FALSE, line |-> <<>>, code |-> <<>>, comment |-> <<>>,
            warned |-> FALSE, update |-> <<>>]

\* main is entered: the source files and the platform are given, the report and
\* the options are any
Start(source_files, platforms, reports) ==
    /\ files \in source_files
    /\ env \in platforms
    /\ report \in reports
    /\ args \in [remove_unused : BOOLEAN, add_type_ignore : BOOLEAN]
    /\ point = 1
    /\ pc = "main"
    /\ error = "none"
    /\ ignores_lines = <<>>
    /\ file_updates = <<>>
    /\ run = 1
    /\ iolog = <<>>
    /\ orig = files
    /\ atRun = files
    /\ atPass = files
    /\ lastSplit = NoSplit

\* UTF-8 locale, "\n" line breaks, ASCII sources
Init == Start({SourceFiles(line) : line \in TargetLines}, {Posix}, Reports)

\* either platform, either line break in f1, a character outside ASCII in f1
InitEnv ==
    Start({SourceFilesEnv(line, nl) : line \in TargetLines, nl \in {<<"\n">>, <<"\r", "\n">>}},
          {Posix, Windows}, Reports)

\* as Init, with the lines of TargetLinesTok and either version of tokenize
InitTok == Start({SourceFiles(line) : line \in TargetLinesTok}, {Posix, Posix312}, Reports)

\* as Init, with the third source file and the reports that name it
InitPath == Start({SourceFilesPath(line) : line \in TargetLines}, {Posix}, ReportsPath)

\* one read or write of a file by a pass
IO(op, path, pass) == [op |-> op, path |-> path, pass |-> pass]

\* pathlib.Path(file_path).read_text() finds the file
Exists(file_path) == Len(file_path) = 1 /\ file_path[1] \in DOMAIN files

(***************************************************************************)
(* main: its two passes, in the order of its `if` statements.              *)
(***************************************************************************)
\* main as it would be with its two `if` statements in the other order
PassAtSwapped(n) == IF n = 1 THEN "add_type_ignore" ELSE "remove_unused"

\* the pass the n-th `if` of main guards and calls
PassAt(n) == IF n = 1 THEN "remove_unused" ELSE "add_type_ignore"

\* args.<pass>
Requested(pass) ==
    IF pass = "remove_unused" THEN args.remove_unused ELSE args.add_type_ignore

\* where main is when the pass of its n-th `if` has returned
PcAfter(n) == IF n >= 2 THEN "done" ELSE "main"

\* an exception leaves main
Raise(exception) ==
    /\ pc' = (IF exception = "SystemExit" THEN "exit" ELSE "crash")
    /\ error' = exception
    /\ point' = point

\* the pass of the current `if` returns
Return ==
    /\ pc' = PcAfter(point)
    /\ point' = point + 1
    /\ error' = error

\* the pass of the current `if` is inside its loop
Loop(at) ==
    /\ pc' = at
    /\ point' = point
    /\ error' = error

\* `if args.<pass>:` not taken
SkipPass ==
    /\ pc = "main"
    /\ ~Requested(PassAt(point))
    /\ Return
    /\ UNCHANGED <<files, report, args, ignores_lines, file_updates, run, env, iolog,
                   orig, atRun, atPass, lastSplit>>

(***************************************************************************)
(* The prune pass (remove_unused_ignores).                                 *)
(***************************************************************************)
\* `if args.remove_unused:` taken: remove_unused_ignores reads the report and
\* builds ignores_lines, sorted by (file_path, line_number)
RemoveUnusedIgnores ==
    /\ pc = "main"
    /\ PassAt(point) = "remove_unused"
    /\ args.remove_unused
    /\ \E r \in {UnusedFrom(Split(read_text(report, env.encoding), "\n"), 1, <<>>)} :
           IF r.error # "none"
           THEN Raise(r.error) /\ ignores_lines' = <<>>
           ELSE IF r.list = <<>>
           THEN Return /\ ignores_lines' = <<>>
           ELSE Loop("prune") /\ ignores_lines' = SortTuples(r.list, FALSE)
    /\ iolog' = Append(iolog, IO("read", "report", "prune"))
    /\ atPass' = files
    /\ UNCHANGED <<files, report, args, file_updates, run, env, orig, atRun, lastSplit>>

RECURSIVE ApplyPrunes(_, _)
\* the inner loop of remove_unused_ignores over the sorted records of one file
ApplyPrunes(file_lines, grp) ==
    IF grp = <<>> THEN [error |-> "none", lines |-> file_lines]
    ELSE LET k == PyIndex(Len(file_lines), grp[1][2] - 1)
         IN  IF k = 0 THEN [error |-> "IndexError", lines |-> file_lines]
             ELSE ApplyPrunes([file_lines EXCEPT ![k] = LinePrune(file_lines[k], grp[1][3])],
                              Tail(grp))

\* one iteration of the groupby loop of remove_unused_ignores: the file is read,
\* every record of the file is applied to the lines in memory, the file is written
RemoveUnusedFile ==
    /\ pc = "prune"
    /\ ignores_lines # <<>>
    /\ LET file_path == ignores_lines[1][1]
           n == PrefixLen(ignores_lines, <<file_path>>, 1)
           grp == SortTuples(Take(ignores_lines, n), TRUE)
           rest == Drop(ignores_lines, n)
       IN  IF ~Exists(file_path)
           THEN /\ Raise("FileNotFoundError")
                /\ UNCHANGED <<files, ignores_lines, iolog>>
           ELSE \E r \in {ApplyPrunes(Split(read_text(files[file_path[1]], env.encoding),
                                             "\n"), grp)} :
                    IF r.error # "none"
                    THEN /\ Raise(r.error)
                         /\ iolog' = Append(iolog, IO("read", file_path[1], "prune"))
                         /\ UNCHANGED <<files, ignores_lines>>
                    ELSE /\ files' = [files EXCEPT ![file_path[1]] =
                                         write_text(Join(r.lines, <<"\n">>), env.linesep)]
                         /\ iolog' = iolog \o <<IO("read", file_path[1], "prune"),
                                                 IO("write", file_path[1], "prune")>>
                         /\ ignores_lines' = rest
                         /\ IF rest = <<>> THEN Return ELSE Loop("prune")
    /\ UNCHANGED <<report, args, file_updates, run, env, orig, atRun, atPass, lastSplit>>

(***************************************************************************)
(* The add pass (add_type_ignores).                                        *)
(***************************************************************************)
\* `if args.add_type_ignore:` taken: add_type_ignores reads the report, leaves by
\* SystemExit on a success line, and extracts the file updates
AddTypeIgnores ==
    /\ pc = "main"
    /\ PassAt(point) = "add_type_ignore"
    /\ args.add_type_ignore
    /\ \E error_report_lines \in {read_mypy_error_report(read_text(report, env.encoding))} :
       \E r \in {extract_file_line_number_and_error_code(error_report_lines)} :
           IF exit_if_no_errors(error_report_lines)
           THEN Raise("SystemExit") /\ file_updates' = <<>>
           ELSE IF r.error # "none"
           THEN Raise(r.error) /\ file_updates' = <<>>
           ELSE IF r.updates = <<>>
           THEN Return /\ file_updates' = <<>>
           ELSE Loop("add") /\ file_updates' = r.updates
    /\ iolog' = Append(iolog, IO("read", "report", "add"))
    /\ atPass' = files
    /\ UNCHANGED <<files, report, args, ignores_lines, run, env, orig, atRun, lastSplit>>

\* one iteration of the groupby loop of update_files: the updates of one
\* (file_path, line_number); the file is read, the line rewritten, the file written
UpdateFilesGroup ==
    /\ pc = "add"
    /\ file_updates # <<>>
    /\ LET file_path == file_updates[1][1]
           line_number == file_updates[1][2]
           n == PrefixLen(file_updates, <<file_path, line_number>>, 2)
           error_codes == {file_updates[i][3] : i \in 1..n}
           rest == Drop(file_updates, n)
       IN  IF ~Exists(file_path)
           THEN /\ Raise("FileNotFoundError")
                /\ UNCHANGED <<files, file_updates, iolog, lastSplit>>
           ELSE LET file_lines == Split(read_text(files[file_path[1]], "utf8"), "\n")
                    k == PyIndex(Len(file_lines), line_number)
                IN  IF k = 0
                    THEN /\ Raise("IndexError")
                         /\ iolog' = Append(iolog, IO("read", file_path[1], "add"))
                         /\ UNCHANGED <<files, file_updates, lastSplit>>
                    ELSE /\ files' = [files EXCEPT ![file_path[1]] =
                                         write_text(
                                             Join([file_lines EXCEPT
                                                     ![k] = LineUpdate(file_lines[k], error_codes)],
                                                  <<"\n">>),
                                             env.linesep)]
                         /\ lastSplit' =
                                LET cc == extract_code_comment(file_lines[k])
                                IN  [called |-> TRUE, line |-> file_lines[k],
                                     code |-> cc.code, comment |-> cc.comment,
                                     warned |-> cc.warned,
                                     update |-> LineUpdate(file_lines[k], error_codes)]
                         /\ iolog' = iolog \o <<IO("read", file_path[1], "add"),
                                                 IO("write", file_path[1], "add")>>
                         /\ file_updates' = rest
                         /\ IF rest = <<>> THEN Return ELSE Loop("add")
    /\ UNCHANGED <<report, args, ignores_lines, run, env, orig, atRun, atPass>>

\* the command is run again, over the same report and with the same options
Reinvoke ==
    /\ pc \in {"done", "exit", "crash"}
    /\ run < MaxRuns
    /\ run' = run + 1
    /\ point' = 1
    /\ pc' = "main"
    /\ error' = "none"
    /\ ignores_lines' = <<>>
    /\ file_updates' = <<>>
    /\ iolog' = <<>>
    /\ atRun' = files
    /\ atPass' = files
    /\ lastSplit' = NoSplit
    /\ UNCHANGED <<files, report, args, env, orig>>

Next ==
    \/ SkipPass
    \/ RemoveUnusedIgnores
    \/ RemoveUnusedFile
    \/ AddTypeIgnores
    \/ UpdateFilesGroup

\* one invocation of main
Spec == Init /\ [][Next]_vars

NextRerun ==
    \/ Next
    \/ Reinvoke

\* up to MaxRuns invocations of main, one after the other
SpecRerun == Init /\ [][NextRerun]_vars

\* one invocation of main, on either platform
SpecEnv == InitEnv /\ [][Next]_vars

\* one invocation of main, over lines the tokenizer stumbles on
SpecTok == InitTok /\ [][Next]_vars

\* one invocation of main, over the three source files
SpecPath == InitPath /\ [][Next]_vars

(***************************************************************************)
(* Vocabulary of the properties.                                           *)
(***************************************************************************)
Codes == {"a", "b"}
UnusedTexts == {<<>>, <<"[", "a", "]">>}

\* the n-th line (1-based) of the file p in the files fs: the bytes between two
\* line breaks, "\n" or "\r\n"
NewlinesOf(s) == {i \in 1..Len(s) : s[i] = "\n"}
NewlineAt(s, k) ==
    IF k = 0 THEN 0
    ELSE IF k > Cardinality(NewlinesOf(s)) THEN Len(s) + 1
    ELSE CHOOSE i \in NewlinesOf(s) : Cardinality({j \in NewlinesOf(s) : j < i}) = k - 1
LineAt(fs, p, n) ==
    LET s == universal_newlines(fs[p])
    IN  SubSeq(s, NewlineAt(s, n - 1) + 1, NewlineAt(s, n) - 1)
NumLines(fs, p) == Cardinality(NewlinesOf(universal_newlines(fs[p]))) + 1

\* the report holds the line
ReportHas(line) ==
    \E i \in 1..(Len(report) - Len(line) + 1) :
        /\ SubSeq(report, i, i + Len(line) - 1) = line
        /\ (i = 1 \/ report[i - 1] = "\n")
        /\ (i + Len(line) > Len(report) \/ report[i + Len(line)] = "\n")

\* the codes the diagnostics of the report give for line n of p, and whether a
\* diagnostic / an unused-ignore record names the line
DiagCodes(p, n) == {<<c>> : c \in {d \in Codes : ReportHas(DiagLine(p, n, d))}}
DiagNamed(p, n) == DiagCodes(p, n) # {}
UnusedNamed(p, n) == \E u \in UnusedTexts : ReportHas(UnusedLine(p, n, u))
HasSuccess == ReportHas(<<"Success", " ", "m">>)
HasNote == ReportHas(<<"f1", ":", "1", ":", " ", "note", ":", " ", "m">>)

\* the lexical structure of a line, stated without the tokenizer: a `#` starts
\* the comment when an even number of quotes precedes it
IsCommentStart(line, i) ==
    line[i] = "#" /\ Cardinality({j \in 1..(i - 1) : line[j] = "Q"}) % 2 = 0
CommentStart(line) ==
    IF \E i \in 1..Len(line) : IsCommentStart(line, i)
    THEN CHOOSE i \in 1..Len(line) :
             IsCommentStart(line, i) /\ \A j \in 1..(i - 1) : ~IsCommentStart(line, j)
    ELSE 0
CodePart(line) ==
    IF CommentStart(line) = 0 THEN line ELSE Take(line, CommentStart(line) - 1)
CommentPart(line) ==
    IF CommentStart(line) = 0 THEN <<>> ELSE Drop(line, CommentStart(line) - 1)
\* a bracket opened in the code of the line is not closed on the line
UnclosedBracket(line) == Contains(CodePart(line), "(")

\* the suppression annotations of a line: those of its comment, as texts
AnnotationsOf(line) ==
    LET c == CommentPart(line)
        ms == FindIter(c, 1)
    IN  [i \in 1..Len(ms) |-> SubSeq(c, ms[i].start, ms[i].end)]
\* the codes of the annotations of a line
AnnotationCodes(line) == get_codes_from_line(CommentPart(line))

NoTrailingWhitespace(line) == line = <<>> \/ line[Len(line)] \notin Whitespace

\* the add pass of this invocation has completed; the prune pass has
AddPassDone == pc = "done" /\ args.add_type_ignore
PrunePassDone == args.remove_unused /\ point = 2 /\ pc = "main"

(***************************************************************************)
(* C1.  After the add pass, every line a diagnostic names carries one      *)
(* suppression annotation whose code list is the sorted, duplicate-free    *)
(* union of the codes of the annotation the line had and the codes the     *)
(* report gives for the line, whatever the order and multiplicity of the   *)
(* report lines.  (Stated as the claim has it; the code violates it.)      *)
(***************************************************************************)
C1_AddPassUnion ==
    AddPassDone =>
        \A p \in Paths, n \in 1..2 :
            DiagNamed(p, n) =>
                LET before == LineAt(atPass, p, n)
                    after == LineAt(files, p, n)
                    expected == SortedStrs(AnnotationCodes(before) \cup DiagCodes(p, n))
                IN  AnnotationsOf(after) = <<IgnoreComment(expected)>>

(***************************************************************************)
(* C2.  A second add pass with the same report over the files the first    *)
(* add pass produced leaves every file byte-identical.  (Stated as the     *)
(* claim has it; the code violates it.)                                    *)
(***************************************************************************)
C2_SecondAddPassIsNoOp ==
    (run >= 2 /\ AddPassDone /\ ~args.remove_unused) => files = atRun

(***************************************************************************)
(* C4.  Every line the add pass rewrites is: the code portion without its  *)
(* trailing whitespace, two spaces, the annotation, and, only when the     *)
(* residual comment is not empty, one space and the residual comment, with *)
(* no trailing whitespace; the residual comment being the comment of the   *)
(* line without its annotation, trimmed.  (Stated as the claim has it; the *)
(* code violates it.)                                                      *)
(***************************************************************************)
C4_RewrittenLineForm ==
    AddPassDone =>
        \A p \in Paths, n \in 1..2 :
            DiagNamed(p, n) =>
                LET cc == extract_code_comment(LineAt(atPass, p, n))
                    residual == Strip(MYPY_IGNORE_WITH_COMMENT_REGEX_sub(<<>>, cc.comment))
                    after == LineAt(files, p, n)
                IN  /\ NoTrailingWhitespace(after)
                    /\ \E S \in (SUBSET {<<"a">>, <<"b">>}) \ {{}} :
                          after = RStrip(cc.code) \o <<" ", " ">> \o IgnoreComment(SortedStrs(S))
                                     \o (IF residual # <<>> THEN <<" ">> \o residual ELSE <<>>)

(***************************************************************************)
(* C5.  For every line an unused-ignore record names, the prune pass       *)
(* leaves: remaining = the codes of the line's annotation minus the codes  *)
(* the records name as unused, empty when a record names no code; the      *)
(* annotation `# type: ignore[<remaining, sorted>]` when remaining is not  *)
(* empty and no annotation otherwise; no trailing whitespace and no        *)
(* dangling `#`.  (Stated as the claim has it; the code violates it.)      *)
(***************************************************************************)
C5_PruneRemaining ==
    PrunePassDone =>
        \A p \in Paths, n \in 1..2 :
            UnusedNamed(p, n) =>
                LET before == LineAt(atPass, p, n)
                    after == LineAt(files, p, n)
                    unused == UNION {parse_codes(SubSeq(u, 2, Len(u) - 1)) :
                                        u \in {v \in UnusedTexts \ {<<>>} :
                                                  ReportHas(UnusedLine(p, n, v))}}
                    remaining == IF ReportHas(UnusedLine(p, n, <<>>)) THEN {}
                                 ELSE AnnotationCodes(before) \ unused
                IN  /\ AnnotationsOf(after) =
                          (IF remaining = {} THEN <<>>
                           ELSE <<IgnoreComment(SortedStrs(remaining))>>)
                    /\ NoTrailingWhitespace(after)
                    /\ (after = <<>> \/ after[Len(after)] # "#")

(***************************************************************************)
(* C3.  A pass changes only the lines its records name: a diagnostic at    *)
(* 1-based line N changes the line of 0-based index N-1 only.  At every    *)
(* moment of the prune pass and of the add pass every line that no record  *)
(* of the pass names is byte-identical to what it was when the pass began  *)
(* (so: to its pre-run text when no record of either pass names it), the   *)
(* files keep their number of lines, only files the records of the pass    *)
(* name are written, and once the add pass is done each named line holds   *)
(* the codes the report gives for it.  Lines are compared without their    *)
(* line breaks.                                                            *)
(***************************************************************************)
C3_Frame ==
    /\ \A p \in Paths : NumLines(files, p) = NumLines(orig, p)
    /\ \A p \in Paths : \A n \in 1..NumLines(orig, p) :
          /\ (~DiagNamed(p, n) /\ ~UnusedNamed(p, n)) =>
                 LineAt(files, p, n) = LineAt(orig, p, n)
          /\ ((pc = "add" \/ AddPassDone) /\ ~DiagNamed(p, n)) =>
                 LineAt(files, p, n) = LineAt(atPass, p, n)
          /\ ((pc = "prune" \/ PrunePassDone) /\ ~UnusedNamed(p, n)) =>
                 LineAt(files, p, n) = LineAt(atPass, p, n)
          /\ (AddPassDone /\ DiagNamed(p, n)) =>
                 DiagCodes(p, n) \subseteq get_codes_from_line(LineAt(files, p, n))
    /\ \A i \in 1..Len(iolog) :
          iolog[i].op = "write" =>
              /\ iolog[i].path \in Paths
              /\ \E n \in 1..NumLines(orig, iolog[i].path) :
                    IF iolog[i].pass = "add" THEN DiagNamed(iolog[i].path, n)
                    ELSE UnusedNamed(iolog[i].path, n)

(***************************************************************************)
(* C6, as amended.  When the report holds a success line, an invocation    *)
(* that requests the add pass ends in the no-issues error (SystemExit),    *)
(* raised by the add pass before it reads or writes a source file; only    *)
(* the add pass checks for the line: a prune pass requested with it has    *)
(* run before and its writes stand, and an invocation that requests the    *)
(* prune pass alone returns without the error.                             *)
(***************************************************************************)
C6_SuccessStopsAddPass ==
    HasSuccess =>
        /\ pc # "add"
        /\ (args.add_type_ignore => pc # "done")
        /\ (pc = "exit" => /\ error = "SystemExit"
                           /\ args.add_type_ignore
                           /\ files = atPass)
        /\ (~args.add_type_ignore => pc # "exit" /\ error # "SystemExit")
        /\ (~args.remove_unused => files = orig)
        /\ \A i \in 1..Len(iolog) :
              iolog[i].pass = "add" => iolog[i] = IO("read", "report", "add")

\* the run failed with the no-issues error after the prune pass had written
C6_Witness ==
    /\ HasSuccess
    /\ pc = "exit"
    /\ error = "SystemExit"
    /\ files # orig

\* C6 as claimed: whichever pass is requested, the run fails and nothing is written
C6_Original ==
    (HasSuccess /\ (args.remove_unused \/ args.add_type_ignore)) =>
        /\ pc # "done"
        /\ files = orig

(***************************************************************************)
(* C7.  For a line whose every `#` lies inside a string literal            *)
(* extract_code_comment returns (line, ""); for a line with one real       *)
(* comment start it returns the text before that start as code and the     *)
(* text from it on as comment, so that code and comment concatenate to the *)
(* line.                                                                   *)
(***************************************************************************)
C7_SplitAtCommentStart ==
    lastSplit.called =>
        LET line == lastSplit.line
            cs == CommentStart(line)
        IN  /\ cs = 0 => lastSplit.code = line /\ lastSplit.comment = <<>>
            /\ cs > 0 => /\ lastSplit.code = Take(line, cs - 1)
                         /\ lastSplit.comment = Drop(line, cs - 1)
                         /\ lastSplit.code \o lastSplit.comment = line

(***************************************************************************)
(* C8, as amended.  A report line that is neither a diagnostic with a code *)
(* nor an unused-ignore line (nor a success line) is skipped by the add    *)
(* pass without an error: the unrecognized-line error is never raised, the *)
(* add pass makes no update from the line and goes on to completion.       *)
(***************************************************************************)
C8_UnrecognizedSkipped ==
    /\ error # "RuntimeError"
    /\ (args.add_type_ignore /\ ~HasSuccess) => (pc \notin {"exit", "crash"} /\ error = "none")
    /\ \A i \in 1..Len(file_updates) :
          /\ Len(file_updates[i][1]) = 1
          /\ file_updates[i][3] \in DiagCodes(file_updates[i][1][1], file_updates[i][2] + 1)
    /\ (AddPassDone /\ HasNote /\ ~DiagNamed("f1", 1)) =>
           LineAt(files, "f1", 1) = LineAt(atPass, "f1", 1)

\* the add pass completed, with edits, over a report that holds a note line
C8_Witness ==
    /\ AddPassDone
    /\ HasNote
    /\ error = "none"
    /\ files # atPass

\* C8 as claimed: with such a line in the report the add pass fails
C8_Original == (HasNote /\ args.add_type_ignore) => pc # "done"

(***************************************************************************)
(* C9.  When both passes are requested, every read and write of the prune  *)
(* pass comes before the first read of the add pass, and the add pass      *)
(* starts only when the prune pass has processed all its records.          *)
(***************************************************************************)
C9_PruneBeforeAdd ==
    /\ \A i, j \in 1..Len(iolog) :
          (iolog[i].pass = "prune" /\ iolog[j].pass = "add") => i < j
    /\ (\E j \in 1..Len(iolog) : iolog[j].pass = "add") =>
          (ignores_lines = <<>> /\ (args.remove_unused => iolog[1].pass = "prune"))

\* both passes wrote f1
C9_Witness ==
    /\ AddPassDone
    /\ \E i, j \in 1..Len(iolog) :
          iolog[i] = IO("write", "f1", "prune") /\ iolog[j] = IO("read", "f1", "add")

(***************************************************************************)
(* C10, as amended.  The prune pass reads each file its records name       *)
(* exactly once and writes it exactly once, however many of its lines they *)
(* name.  The add pass reads and writes a file once for every distinct     *)
(* line of it the diagnostics name: between the edits of two lines of a    *)
(* file the file is written and read again.  Every read of a source file   *)
(* is followed at once by the write of that file.                          *)
(***************************************************************************)
Count(op, p, pass) == Cardinality({i \in 1..Len(iolog) : iolog[i] = IO(op, p, pass)})

C10_ReadsAndWrites ==
    /\ (args.remove_unused /\ point >= 2) =>
           \A p \in Paths :
               /\ Count("read", p, "prune") = Count("write", p, "prune")
               /\ Count("read", p, "prune") =
                      (IF \E n \in 1..NumLines(orig, p) : UnusedNamed(p, n) THEN 1 ELSE 0)
    /\ AddPassDone =>
           \A p \in Paths :
               /\ Count("read", p, "add") = Count("write", p, "add")
               /\ Count("read", p, "add") =
                      Cardinality({n \in 1..NumLines(orig, p) : DiagNamed(p, n)})
    /\ \A i \in 1..Len(iolog) :
          (iolog[i].op = "read" /\ iolog[i].path # "report") =>
              /\ i < Len(iolog)
              /\ iolog[i + 1] = IO("write", iolog[i].path, iolog[i].pass)

\* the add pass read f1 twice, once for each of its two lines
C10_Witness ==
    /\ AddPassDone
    /\ Count("read", "f1", "add") = 2
    /\ Count("write", "f1", "add") = 2

\* C10 as claimed: within a pass no file is read twice or written twice
C10_Original ==
    \A p \in Paths : \A pass \in {"prune", "add"} : \A op \in {"read", "write"} :
        Count(op, p, pass) <= 1

(***************************************************************************)
(* C11.  Every edit of the add pass and of the prune pass leaves the code  *)
(* portion of the line (the part before its real comment start) as it was, *)
(* apart from trailing whitespace, also when the code portion holds a      *)
(* string literal whose text looks like a suppression annotation: at every *)
(* moment of a run the code portion of every line is the one it had before *)
(* the run.                                                                *)
(***************************************************************************)
C11_CodePortionKept ==
    \A p \in Paths : \A n \in 1..NumLines(orig, p) :
        RStrip(CodePart(LineAt(files, p, n))) = RStrip(CodePart(LineAt(orig, p, n)))

(***************************************************************************)
(* C12.  The records the add pass extracts from a report are exactly the   *)
(* (file_path, line_number - 1, code) of the report lines that hold the    *)
(* word "error", end in a bracketed code and whose message is not an       *)
(* unused-suppression message, file_path and line_number being the first   *)
(* two colon-delimited fields: whether a line is an unused-suppression     *)
(* line depends on its message, not on its file path, and no               *)
(* unused-suppression line contributes a code.                             *)
(***************************************************************************)
\* extract_file_line_number_and_error_code has just returned to add_type_ignores
JustExtracted ==
    /\ error = "none"
    /\ pc \in {"add", "done"}
    /\ iolog # <<>>
    /\ iolog[Len(iolog)] = IO("read", "report", "add")

\* the records of the diagnostics of the report, whatever file they name
DiagRecords ==
    { rec \in { <<<<p>>, n - 1, <<c>>>> :
                    p \in DOMAIN files, n \in 1..Len(Numerals), c \in Codes } :
         ReportHas(DiagLine(rec[1][1], rec[2] + 1, rec[3][1])) }

C12_ExtractedRecords ==
    JustExtracted => {file_updates[i] : i \in 1..Len(file_updates)} = DiagRecords

(***************************************************************************)
(* C13.  When the tokenizer cannot scan a target line that holds a `#` (an *)
(* open bracket, a literal never closed), extract_code_comment raises no   *)
(* error, warns and returns (line, ""); the add pass edits that line, by   *)
(* appending an annotation to it, goes on with the remaining records and   *)
(* completes normally: it never ends in an exception, and when it is done  *)
(* every line the diagnostics name holds the codes they give for it.       *)
(***************************************************************************)
Odd(line, quote) == Cardinality({i \in 1..Len(line) : line[i] = quote}) % 2 = 1

\* the tokenizer cannot scan the line: the versions differ on a quote never closed
Unscannable(line) ==
    \/ UnclosedBracket(line)
    \/ Odd(line, "TQ")
    \/ env.tokenize = "3.12" /\ Odd(line, "Q")

C13_TokenErrorTolerated ==
    /\ (lastSplit.called /\ Contains(lastSplit.line, "#") /\ Unscannable(lastSplit.line)) =>
           /\ lastSplit.warned
           /\ lastSplit.code = lastSplit.line
           /\ lastSplit.comment = <<>>
           /\ error = "none"
           /\ pc \in {"add", "done"}
           /\ LET c == RStrip(lastSplit.line)
              IN  /\ Len(lastSplit.update) > Len(c) + 6
                  /\ Take(lastSplit.update, Len(c) + 6) =
                         c \o <<" ", " ", "#", " ", "TI", "[">>
                  /\ lastSplit.update[Len(lastSplit.update)] = "]"
    /\ (lastSplit.called /\ lastSplit.warned) => Unscannable(lastSplit.line)
    /\ (args.add_type_ignore /\ point = 2 /\ ~HasSuccess) =>
           (pc \in {"main", "add"} /\ error = "none")
    /\ AddPassDone =>
           \A p \in Paths : \A n \in 1..NumLines(orig, p) :
               DiagCodes(p, n) \subseteq get_codes_from_line(LineAt(files, p, n))

\* under the tokenize of 3.12 a line with a quote never closed was split with the
\* warning and edited, and records remain to be processed
C13_Witness ==
    /\ lastSplit.called
    /\ lastSplit.warned
    /\ Odd(lastSplit.line, "Q")
    /\ lastSplit.update # lastSplit.line
    /\ pc = "add"
    /\ file_updates # <<>>

(***************************************************************************)
(* C14.  When every line of the files holds at most one suppression        *)
(* annotation before the first pass, every line holds at most one after    *)
(* any sequence of add passes and prune passes: the add pass merges the    *)
(* new codes into the annotation of the line and appends no second one.    *)
(***************************************************************************)
AtMostOneAnnotation(fs) ==
    \A p \in Paths : \A n \in 1..NumLines(fs, p) : Len(AnnotationsOf(LineAt(fs, p, n))) <= 1

C14_OneAnnotation == AtMostOneAnnotation(orig) => AtMostOneAnnotation(files)

====
